---- MODULE Spec2Model ----
(***************************************************************************)
(* A model of rust-gobang: the rules engine (src/game.rs), the move        *)
(* generator, the pattern evaluator and the root-parallel alpha-beta       *)
(* search (src/ai.rs).                                                     *)
(***************************************************************************)
EXTENDS Integers, Sequences, FiniteSets, TLC

\* ------------------------------------------------------------------------
\* Program constants

\* game.rs:12  BoardState = [[Piece; 15]; 15]
BoardSize == 15

\* ai.rs:11
MAX_DEPTH == 3

\* i32::MIN / i32::MAX
I32_MIN == -2147483647 - 1
I32_MAX == 2147483647

\* game.rs:6-10  enum Piece
Piece == {"Empty", "White", "Black"}

Coord == 0 .. (BoardSize - 1)

\* game.rs:32  [[Piece::Empty; 15]; 15]
EmptyBoard == [x \in Coord |-> [y \in Coord |-> "Empty"]]

\* game.rs:30-35  GameState::new
NewWhiteFirstMut == [board |-> EmptyBoard, current_turn |-> "White"]

new == [board |-> EmptyBoard, current_turn |-> "Black"]

\* game.rs:41-43  GameState::piece (callers pass in-range points only)
piece(state, point) == state.board[point[1]][point[2]]

\* game.rs:70 and ai.rs:206, ai.rs:404  the four axis directions
Dirs == << <<1, 0>>, <<0, 1>>, <<1, 1>>, <<1, -1>> >>

Max(a, b) == IF a >= b THEN a ELSE b
Min(a, b) == IF a <= b THEN a ELSE b

\* game.rs:75-88 (and ai.rs:382-395)  the inner loop: the number of cells
\* holding pc met walking from (px, py) in direction (dx, dy), the start
\* cell excluded, up to the first other cell or the edge of the board.
RECURSIVE walk_count(_, _, _, _, _, _)
walk_count(state, pc, px, py, dx, dy) ==
    LET nx == px + dx
        ny == py + dy
    IN  IF nx < 0 \/ ny < 0 \/ nx >= BoardSize \/ ny >= BoardSize
        THEN 0
        ELSE IF piece(state, <<nx, ny>>) # pc
             THEN 0
             ELSE 1 + walk_count(state, pc, nx, ny, dx, dy)

\* game.rs:71-89  count for one axis: the cell itself, then both senses
axis_count(state, pc, point, dir) ==
    1 + walk_count(state, pc, point[1], point[2], dir[1], dir[2])
      + walk_count(state, pc, point[1], point[2], -dir[1], -dir[2])

\* game.rs:66-95  GameState::get_max_link_count; the returned value is the
\* negated maximum (game.rs:94).
RECURSIVE max_link_from(_, _, _, _, _)
max_link_from(state, pc, point, i, link_count) ==
    IF i > Len(Dirs) THEN link_count
    ELSE max_link_from(state, pc, point, i + 1,
                       Max(link_count, axis_count(state, pc, point, Dirs[i])))

get_max_link_count(state, point) ==
    -max_link_from(state, piece(state, point), point, 1, 0)

\* game.rs:52-56
other_turn(side) == IF side = "Black" THEN "White" ELSE "Black"

\* game.rs:47  the guard, evaluated left to right with short-circuit; the
\* board is indexed only when both coordinates are in range.
invalid_move(state, point) ==
    \/ point[1] >= BoardSize
    \/ point[2] >= BoardSize
    \/ state.board[point[1]][point[2]] # "Empty"

\* game.rs:58-63  the outcome of a placement
WinAtLinkMut(link_count) == IF -link_count >= 4 THEN "Win" ELSE "NotEnd"

game_end(link_count) == IF link_count >= 5 THEN "Win" ELSE "NotEnd"

\* game.rs:51-56  place the piece and flip the turn
PlaceNoFlipMut(state, point) ==
    [board |-> [state.board EXCEPT ![point[1]][point[2]] = state.current_turn],
     current_turn |-> state.current_turn]

place(state, point) ==
    [board |-> [state.board EXCEPT ![point[1]][point[2]] = state.current_turn],
     current_turn |-> other_turn(state.current_turn)]

\* game.rs:45-64  GameState::make_move: the state after the call and the
\* value returned ("InvalidMove" for the Err).
MakeMoveBoundMut(state, point) ==
    IF point[1] > BoardSize \/ point[2] > BoardSize
    THEN [state |-> state, result |-> "InvalidMove"]
    ELSE IF point[1] >= BoardSize \/ point[2] >= BoardSize
         THEN [state |-> state, result |-> "Panic"]
         ELSE IF state.board[point[1]][point[2]] # "Empty"
              THEN [state |-> state, result |-> "InvalidMove"]
              ELSE [state |-> place(state, point),
                    result |-> game_end(get_max_link_count(place(state, point), point))]

make_move(state, point) ==
    IF invalid_move(state, point)
    THEN [state |-> state, result |-> "InvalidMove"]
    ELSE LET placed == place(state, point)
         IN  [state |-> placed,
              result |-> game_end(get_max_link_count(placed, point))]

\* ------------------------------------------------------------------------
\* Move generator (ai.rs)

\* ai.rs:377-399  evaluate_location's closure evaluate_impl: the run of pc
\* that would pass through point along dir
evaluate_impl(game_state_, point, pc, dir) ==
    1 + walk_count(game_state_, pc, point[1], point[2], dir[1], dir[2])
      + walk_count(game_state_, pc, point[1], point[2], -dir[1], -dir[2])

\* ai.rs:406-416
location_value(count) ==
    IF count > 5 THEN 100000
    ELSE IF count = 5 THEN 100000
    ELSE IF count = 4 THEN 1000
    ELSE IF count = 3 THEN 10
    ELSE 0

\* ai.rs:403  vec![Piece::White, Piece::Black]
LocationPieces == <<"White", "Black">>

\* ai.rs:376-421  evaluate_location
RECURSIVE location_sum(_, _, _, _)
location_sum(game_state_, point, pi, di) ==
    IF pi > Len(LocationPieces) THEN 0
    ELSE IF di > Len(Dirs) THEN location_sum(game_state_, point, pi + 1, 1)
    ELSE location_value(evaluate_impl(game_state_, point, LocationPieces[pi], Dirs[di]))
         + location_sum(game_state_, point, pi, di + 1)

evaluate_location(game_state_, point) == -location_sum(game_state_, point, 1, 1)

\* ai.rs:108-121  is a non-Empty cell within one step of (x, y), the board's
\* edge respected (the cell itself is Empty when this is asked)
NearbyHalfOpenMut(state, x, y) ==
    \E dx \in -1 .. 0 : \E dy \in -1 .. 0 :
        LET px == x + dx
            py == y + dy
        IN  /\ ~(px < 0 \/ py < 0 \/ px >= BoardSize \/ py >= BoardSize)
            /\ piece(state, <<px, py>>) # "Empty"

nearby(state, x, y) ==
    \E dx \in -1 .. 1 : \E dy \in -1 .. 1 :
        LET px == x + dx
            py == y + dy
        IN  /\ ~(px < 0 \/ py < 0 \/ px >= BoardSize \/ py >= BoardSize)
            /\ piece(state, <<px, py>>) # "Empty"

\* ai.rs:101-102  for x in 0..15 { for y in 0..15: the cells in scan order
ScanPoints ==
    [i \in 1 .. BoardSize * BoardSize |->
        <<(i - 1) \div BoardSize, (i - 1) % BoardSize>>]

\* ai.rs:129  Vec::sort_by on the score: a stable sort, ascending
RECURSIVE InsertBeforeTiesMut(_, _)
InsertBeforeTiesMut(sorted, e) ==
    IF sorted = <<>> THEN <<e>>
    ELSE IF sorted[Len(sorted)][2] < e[2] THEN Append(sorted, e)
    ELSE Append(InsertBeforeTiesMut(SubSeq(sorted, 1, Len(sorted) - 1), e),
                sorted[Len(sorted)])

RECURSIVE insert_sorted(_, _)
insert_sorted(sorted, e) ==
    IF sorted = <<>> THEN <<e>>
    ELSE IF sorted[Len(sorted)][2] <= e[2] THEN Append(sorted, e)
    ELSE Append(insert_sorted(SubSeq(sorted, 1, Len(sorted) - 1), e),
                sorted[Len(sorted)])

RECURSIVE sort_from(_, _, _)
sort_from(positions, i, sorted) ==
    IF i > Len(positions) THEN sorted
    ELSE sort_from(positions, i + 1, insert_sorted(sorted, positions[i]))

sort_by(positions) == sort_from(positions, 1, <<>>)

\* ai.rs:98-131  generate_moves
generate_moves(state) ==
    LET found == SelectSeq(ScanPoints,
                     LAMBDA p : /\ piece(state, p) = "Empty"
                                /\ nearby(state, p[1], p[2]))
        positions == [i \in 1 .. Len(found) |->
                         <<found[i], evaluate_location(state, found[i])>>]
        ordered == sort_by(positions)
    IN  [i \in 1 .. Len(ordered) |-> ordered[i][1]]

\* ------------------------------------------------------------------------
\* Evaluator (ai.rs)

\* ai.rs:193-203  enum PieceState
PieceState ==
    {"Long", "Five", "RushFour", "LiveFour", "LiveThree", "SleepThree",
     "LiveTwo", "SleepTwo"}

\* ai.rs:364-374  inv: the sequence reversed
inv(sequence_) ==
    [i \in 1 .. Len(sequence_) |-> sequence_[Len(sequence_) + 1 - i]]

\* ai.rs:337-348  loopback: is the sequence a palindrome
loopback(sequence_) ==
    \A left \in 1 .. Len(sequence_) :
        sequence_[left] = sequence_[Len(sequence_) + 1 - left]

\* ai.rs:350-362  with_inv: every pattern, followed by its reverse unless it
\* is a palindrome
RECURSIVE with_inv_from(_, _)
with_inv_from(patterns, i) ==
    IF i > Len(patterns) THEN <<>>
    ELSE (IF loopback(patterns[i][1])
          THEN <<patterns[i]>>
          ELSE <<patterns[i], <<inv(patterns[i][1]), patterns[i][2]>> >>)
         \o with_inv_from(patterns, i + 1)

with_inv(patterns) == with_inv_from(patterns, 1)

\* ai.rs:254-274  the pattern catalogue, in priority order
Patterns ==
    with_inv(<<
        << <<1, 1, 1, 1, 1, 1>>, "Long" >>,
        << <<1, 1, 1, 1, 1>>, "Five" >>,
        << <<0, 1, 1, 1, 1, 0>>, "LiveFour" >>,
        << <<0, 1, 1, 1, 0, 0>>, "LiveThree" >>,
        << <<0, 1, 0, 1, 1, 0>>, "LiveThree" >>,
        << <<0, 0, 1, 1, 0, 0>>, "LiveTwo" >>,
        << <<2, 1, 1, 1, 1, 0>>, "RushFour" >>,
        << <<1, 1, 0, 1, 1>>, "RushFour" >>,
        << <<1, 0, 1, 1, 1>>, "RushFour" >>,
        << <<1, 0, 0, 1, 1>>, "SleepThree" >>,
        << <<2, 1, 1, 1, 0, 0>>, "SleepThree" >>,
        << <<2, 1, 1, 0, 1, 0>>, "SleepThree" >>,
        << <<2, 1, 0, 1, 1, 0>>, "SleepThree" >>,
        << <<2, 1, 1, 0, 0, 0>>, "SleepTwo" >>,
        << <<2, 1, 0, 1, 0, 0>>, "SleepTwo" >>,
        << <<2, 1, 0, 0, 1, 0>>, "SleepTwo" >>,
        << <<2, 1, 0, 0, 0, 1>>, "SleepTwo" >>,
        << <<2, 0, 1, 1, 0, 0, 2>>, "SleepTwo" >>,
        << <<2, 0, 1, 0, 1, 0, 2>>, "SleepTwo" >>
    >>)

\* ai.rs:304-310  the length of the shortest pattern
RECURSIVE min_len_from(_, _, _)
min_len_from(subarrays, k, len) ==
    IF k > Len(subarrays) THEN len
    ELSE min_len_from(subarrays, k + 1, Min(len, Len(subarrays[k][1])))

\* ai.rs:319-321  slice -> the index of the first pattern, in catalogue
\* order, that equals it (an earlier pattern takes precedence in @@)
RECURSIVE pattern_table(_, _)
pattern_table(subarrays, k) ==
    IF k = Len(subarrays) THEN subarrays[k][1] :> k
    ELSE (subarrays[k][1] :> k) @@ pattern_table(subarrays, k + 1)

PatternTable == pattern_table(Patterns, 1)

PatternSlices == DOMAIN PatternTable

\* the lengths patterns have
PatternLens == {Len(Patterns[k][1]) : k \in 1 .. Len(Patterns)}

\* ai.rs:319-328  the first pattern, in catalogue order, found at offset i
\* (0-based) of array, 0 when none is: of the patterns that fit in the rest
\* of the array and equal the slice of their length, the one of least index
FirstMatchOffEndMut(array, i) ==
    LET slices == {SubSeq(array, i + 1, i + n) :
                      n \in {m \in PatternLens : i + m < Len(array)}}
        found == {PatternTable[slice] : slice \in slices \cap PatternSlices}
    IN  IF found = {} THEN 0
        ELSE CHOOSE k \in found : \A other \in found : k <= other

first_match(array, i) ==
    LET slices == {SubSeq(array, i + 1, i + n) :
                      n \in {m \in PatternLens : i + m <= Len(array)}}
        found == {PatternTable[slice] : slice \in slices \cap PatternSlices}
    IN  IF found = {} THEN 0
        ELSE CHOOSE k \in found : \A other \in found : k <= other

\* ai.rs:316-332  the scan: a match credits its shape and skips the matched
\* span, no match advances by one
RECURSIVE count_from(_, _, _, _, _)
count_from(array, subarrays, len, i, count) ==
    IF ~(i < Len(array) - len + 1) THEN count
    ELSE LET k == first_match(array, i)
         IN  IF k # 0
             THEN count_from(array, subarrays, len, i + Len(subarrays[k][1]),
                      [count EXCEPT ![subarrays[k][2]] = @ + 1])
             ELSE count_from(array, subarrays, len, i + 1, count)

\* ai.rs:298-335  count_subarrays: shape -> occurrences (0 for a shape the
\* returned map has no entry for)
count_subarrays(array, subarrays) ==
    LET len == min_len_from(subarrays, 1, BoardSize * BoardSize)
        none == [st \in PieceState |-> 0]
    IN  IF Len(array) < len THEN none
        ELSE count_from(array, subarrays, len, 0, none)

\* ai.rs:284-296  next_point_valid: the point one step along dir, or no
\* point when that step leaves the board
next_point_valid(point, dir) ==
    LET x == point[1] + dir[1]
        y == point[2] + dir[2]
    IN  IF x < 0 \/ y < 0 \/ x >= BoardSize \/ y >= BoardSize
        THEN [valid |-> FALSE, point |-> point]
        ELSE [valid |-> TRUE, point |-> <<x, y>>]

\* ai.rs:209-225  the start points of the lines scanned for one direction
line_starts(dir) ==
    << <<0, 0>> >>
    \o (IF dir[2] > 0 THEN [x \in 1 .. BoardSize - 1 |-> <<x, 0>>]
        ELSE IF dir[2] < 0 THEN [x \in 1 .. BoardSize - 1 |-> <<x, BoardSize - 1>>]
        ELSE <<>>)
    \o (IF dir[1] # 0 THEN [y \in 1 .. BoardSize - 1 |-> <<0, y>>] ELSE <<>>)

\* ai.rs:231  while next_point_valid(&mut point, &dir): the points the
\* loop visits from a start point, the start point itself not among them
RECURSIVE line_points(_, _)
line_points(point, dir) ==
    LET next == next_point_valid(point, dir)
    IN  IF ~next.valid THEN <<>>
        ELSE <<next.point>> \o line_points(next.point, dir)

\* ai.rs:206-226  the first flat_map: every (start point, direction), here
\* with the points its scan visits
RECURSIVE lines_from(_)
lines_from(di) ==
    IF di > Len(Dirs) THEN <<>>
    ELSE [si \in 1 .. Len(line_starts(Dirs[di])) |->
             line_points(line_starts(Dirs[di])[si], Dirs[di])]
         \o lines_from(di + 1)

Lines == lines_from(1)

\* ai.rs:209-225  the (start point, direction) of every line, in the order
\* of Lines
RECURSIVE line_heads_from(_)
line_heads_from(di) ==
    IF di > Len(Dirs) THEN <<>>
    ELSE [si \in 1 .. Len(line_starts(Dirs[di])) |->
             <<line_starts(Dirs[di])[si], Dirs[di]>>]
         \o line_heads_from(di + 1)

LineHeads == line_heads_from(1)

\* ai.rs:232-239  the token of a cell
token(game_state_, my_piece, point) ==
    LET pc == piece(game_state_, point)
    IN  IF pc = "Empty" THEN 0
        ELSE IF pc = my_piece THEN 1
        ELSE 2

\* ai.rs:227-243  the token sequence of one line, between two sentinels
line_tokens(game_state_, my_piece, points) ==
    <<2>> \o [j \in 1 .. Len(points) |-> token(game_state_, my_piece, points[j])]
          \o <<2>>

\* ai.rs:244-252  the two filters
line_kept(tokens) ==
    /\ Len(tokens) > 7
    /\ \E i \in 1 .. Len(tokens) : tokens[i] # 0

\* ai.rs:205-282  sequence: the (shape, count) pairs of every kept line, as
\* one shape -> count map per line, in line order
sequence(game_state_, my_piece) ==
    LET all == [i \in 1 .. Len(Lines) |->
                   line_tokens(game_state_, my_piece, Lines[i])]
        kept == SelectSeq(all, line_kept)
    IN  [i \in 1 .. Len(kept) |-> count_subarrays(kept[i], Patterns)]

\* ai.rs:153-162  the value of a shape of the side to move
my_value == [piece_state \in PieceState |->
    CASE piece_state = "Long" -> 1000000
      [] piece_state = "Five" -> 1000000
      [] piece_state = "RushFour" -> 2000
      [] piece_state = "LiveFour" -> 10000
      [] piece_state = "LiveThree" -> 2000
      [] piece_state = "SleepThree" -> 100
      [] piece_state = "LiveTwo" -> 5
      [] piece_state = "SleepTwo" -> 1]

\* ai.rs:173-182  the value of a shape of the other side
enemy_value == [piece_state \in PieceState |->
    CASE piece_state = "Long" -> 1000000
      [] piece_state = "Five" -> 1000000
      [] piece_state = "RushFour" -> 5000
      [] piece_state = "LiveFour" -> 10000
      [] piece_state = "LiveThree" -> 200
      [] piece_state = "SleepThree" -> 100
      [] piece_state = "LiveTwo" -> 5
      [] piece_state = "SleepTwo" -> 1]

\* ai.rs:153-162, 173-182  value * count of the shapes of one line's map
line_score(counts, value) ==
    value["Long"] * counts["Long"] + value["Five"] * counts["Five"]
    + value["RushFour"] * counts["RushFour"] + value["LiveFour"] * counts["LiveFour"]
    + value["LiveThree"] * counts["LiveThree"]
    + value["SleepThree"] * counts["SleepThree"]
    + value["LiveTwo"] * counts["LiveTwo"] + value["SleepTwo"] * counts["SleepTwo"]

\* ai.rs:152-163, 165-183  the for loops: the sum over the lines' maps
RECURSIVE sum_from(_, _)
sum_from(numbers, i) ==
    IF i > Len(numbers) THEN 0 ELSE numbers[i] + sum_from(numbers, i + 1)

lines_sum(lines, value) ==
    LET scores == [i \in 1 .. Len(lines) |-> line_score(lines[i], value)]
    IN  sum_from(scores, 1)

\* ai.rs:150-183  the score evaluate computes on a cache miss
ComputeScoreBlackMut(state) ==
    lines_sum(sequence(state, "Black"), my_value)
    - lines_sum(sequence(state, "White"), enemy_value)

compute_score(state) ==
    lines_sum(sequence(state, state.current_turn), my_value)
    - lines_sum(sequence(state, other_turn(state.current_turn)), enemy_value)

\* ai.rs:133-135  EVALUATE_CACHE, a map GameState -> score; empty at start
EmptyCache == [st \in {} |-> 0]

\* ai.rs:141-148  the lookup under the lock
CacheGetAnyMut(cache_, state) ==
    IF DOMAIN cache_ # {}
    THEN [hit |-> TRUE, score |-> cache_[CHOOSE st \in DOMAIN cache_ : TRUE]]
    ELSE [hit |-> FALSE, score |-> 0]

cache_get(cache_, state) ==
    IF state \in DOMAIN cache_
    THEN [hit |-> TRUE, score |-> cache_[state]]
    ELSE [hit |-> FALSE, score |-> 0]

\* ai.rs:185-188  the insert under the lock (an existing entry is replaced)
CacheInsertSumMut(cache_, state, score) ==
    IF state \in DOMAIN cache_
    THEN (state :> cache_[state] + score) @@ cache_
    ELSE (state :> score) @@ cache_

cache_insert(cache_, state, score) == (state :> score) @@ cache_

\* ai.rs:139-191  evaluate, run without interruption: the score returned
\* and the cache left behind
evaluate(cache_, state) ==
    LET found == cache_get(cache_, state)
    IN  IF found.hit
        THEN [score |-> found.score, cache |-> cache_]
        ELSE LET score == compute_score(state)
             IN  [score |-> score, cache |-> cache_insert(cache_, state, score)]

\* ------------------------------------------------------------------------
\* Search (ai.rs)

\* ai.rs:13-55  minimax run to completion on its own, leaves scored by
\* compute_score (what evaluate returns on a miss)
RECURSIVE minimax(_, _, _, _, _)
RECURSIVE minimax_loop(_, _, _, _, _, _, _)
minimax_loop(state, depth, alpha, beta, maximizing_player, moves, best) ==
    IF moves = <<>> THEN best
    ELSE LET moved == make_move(state, Head(moves))
             eval == IF moved.result = "NotEnd"
                     THEN minimax(moved.state, depth - 1, alpha, beta,
                                  ~maximizing_player)
                     ELSE IF maximizing_player THEN I32_MAX ELSE I32_MIN
         IN  IF maximizing_player
             THEN IF beta <= Max(alpha, eval) THEN Max(best, eval)
                  ELSE minimax_loop(state, depth, Max(alpha, eval), beta,
                                    maximizing_player, Tail(moves), Max(best, eval))
             ELSE IF Min(beta, eval) <= alpha THEN Min(best, eval)
                  ELSE minimax_loop(state, depth, alpha, Min(beta, eval),
                                    maximizing_player, Tail(moves), Min(best, eval))

minimax(state, depth, alpha, beta, maximizing_player) ==
    IF depth = 0 THEN compute_score(state)
    ELSE minimax_loop(state, depth, alpha, beta, maximizing_player,
                      generate_moves(state),
                      IF maximizing_player THEN I32_MIN ELSE I32_MAX)

\* ai.rs:18-21, 38  the activation of one minimax call past its depth check:
\* the moves still to try (the head is the one being tried) and max_eval or
\* min_eval so far
new_frame(state, depth, alpha, beta, maximizing_player) ==
    [state |-> state, depth |-> depth, alpha |-> alpha, beta |-> beta,
     maximizing_player |-> maximizing_player,
     moves |-> generate_moves(state),
     best |-> IF maximizing_player THEN I32_MIN ELSE I32_MAX]

\* ai.rs:30-31, 47-48  a child's eval folded into the activation
fold_eval(frame, eval) ==
    IF frame.maximizing_player
    THEN [frame EXCEPT !.best = Max(@, eval), !.alpha = Max(@, eval)]
    ELSE [frame EXCEPT !.best = Min(@, eval), !.beta = Min(@, eval)]

Pop(stack) == SubSeq(stack, 1, Len(stack) - 1)

\* ai.rs:13-55  minimax as one root task runs it, cut at its evaluate calls:
\* the task's call stack is run until the next evaluate call (kind "eval",
\* with the state to score) or until the outermost call returns (kind
\* "done", with its value).
RECURSIVE minimax_call(_, _, _, _, _, _)
RECURSIVE minimax_next(_)
RECURSIVE minimax_return(_, _)
\* ai.rs:14-16  entry of a call made with this stack below it
minimax_call(stack, state, depth, alpha, beta, maximizing_player) ==
    IF depth = 0
    THEN [kind |-> "eval", stack |-> stack, state |-> state, value |-> 0]
    ELSE minimax_next(Append(stack,
             new_frame(state, depth, alpha, beta, maximizing_player)))

\* ai.rs:22-29, 39-46  the top activation tries its next move, or returns
\* its best when none is left
minimax_next(stack) ==
    LET frame == stack[Len(stack)]
    IN  IF frame.moves = <<>>
        THEN minimax_return(Pop(stack), frame.best)
        ELSE LET moved == make_move(frame.state, Head(frame.moves))
             IN  IF moved.result = "InvalidMove"
                 THEN [kind |-> "panic", stack |-> stack, state |-> frame.state,
                       value |-> 0]
                 ELSE IF moved.result = "NotEnd"
                 THEN minimax_call(stack, moved.state, frame.depth - 1,
                                   frame.alpha, frame.beta, ~frame.maximizing_player)
                 ELSE minimax_return(stack,
                          IF frame.maximizing_player THEN I32_MAX ELSE I32_MIN)

\* ai.rs:30-35, 47-52  a value comes back to the top activation: fold it,
\* then cut off or go on with the next move; with no activation left the
\* task's minimax call is over
MinimaxReturnCutLowMut(stack, eval) ==
    IF stack = <<>>
    THEN [kind |-> "done", stack |-> stack, state |-> new, value |-> eval]
    ELSE LET frame == fold_eval(stack[Len(stack)], eval)
         IN  IF frame.beta <= frame.alpha
             THEN minimax_return(Pop(stack),
                      IF frame.maximizing_player THEN I32_MIN ELSE I32_MAX)
             ELSE minimax_next(Append(Pop(stack),
                      [frame EXCEPT !.moves = Tail(@)]))

minimax_return(stack, eval) ==
    IF stack = <<>>
    THEN [kind |-> "done", stack |-> stack, state |-> new, value |-> eval]
    ELSE LET frame == fold_eval(stack[Len(stack)], eval)
         IN  IF frame.beta <= frame.alpha
             THEN minimax_return(Pop(stack), frame.best)
             ELSE minimax_next(Append(Pop(stack),
                      [frame EXCEPT !.moves = Tail(@)]))

\* ai.rs:66-74  the closure run for one root candidate, up to its first
\* evaluate call
RootTaskShallowMut(state, action) ==
    LET moved == make_move(state, action)
    IN  IF moved.result = "InvalidMove"
        THEN [kind |-> "panic", stack |-> <<>>, state |-> state, value |-> 0]
        ELSE minimax_call(<<>>, moved.state, MAX_DEPTH - 1, I32_MIN, I32_MAX, FALSE)

root_task(state, action) ==
    LET moved == make_move(state, action)
    IN  IF moved.result = "InvalidMove"
        THEN [kind |-> "panic", stack |-> <<>>, state |-> state, value |-> 0]
        ELSE minimax_call(<<>>, moved.state, MAX_DEPTH, I32_MIN, I32_MAX, FALSE)

\* ai.rs:61-62, 77-84  the selection loop over the gathered pairs
RECURSIVE SelectStrictMut(_, _, _, _)
SelectStrictMut(pairs, i, eval_so_far, moves_so_far) ==
    IF i > Len(pairs) THEN [best_eval |-> eval_so_far, best_moves |-> moves_so_far]
    ELSE IF pairs[i][2] > eval_so_far
         THEN SelectStrictMut(pairs, i + 1, pairs[i][2], <<pairs[i][1]>>)
         ELSE SelectStrictMut(pairs, i + 1, eval_so_far, moves_so_far)

RECURSIVE SelectLastMut(_, _, _, _)
SelectLastMut(pairs, i, eval_so_far, moves_so_far) ==
    IF i > Len(pairs) THEN [best_eval |-> eval_so_far, best_moves |-> moves_so_far]
    ELSE IF pairs[i][2] >= eval_so_far
         THEN SelectLastMut(pairs, i + 1, pairs[i][2], <<pairs[i][1]>>)
         ELSE SelectLastMut(pairs, i + 1, eval_so_far, moves_so_far)

RECURSIVE select_best(_, _, _, _)
select_best(pairs, i, eval_so_far, moves_so_far) ==
    IF i > Len(pairs) THEN [best_eval |-> eval_so_far, best_moves |-> moves_so_far]
    ELSE LET action == pairs[i][1]
             eval == pairs[i][2]
         IN  IF eval > eval_so_far
             THEN select_best(pairs, i + 1, eval, <<action>>)
             ELSE IF eval = eval_so_far
             THEN select_best(pairs, i + 1, eval_so_far, Append(moves_so_far, action))
             ELSE select_best(pairs, i + 1, eval_so_far, moves_so_far)

\* ------------------------------------------------------------------------
\* State

VARIABLES
    game_state,     \* main.rs:11  the game's GameState
    turn,           \* main.rs:12  the number of successful placements
    last_point,     \* the argument of the last make_move call
    last_result,    \* what the last make_move call returned
    gen_moves,      \* Some(what generate_moves returned for game_state), or None
    eval_pair,      \* the two states handed to evaluate
    eval_kind,      \* how the two states are related
    eval_scores,    \* for each, Some(the score evaluate returned), or None
    cache,          \* ai.rs:133-135  EVALUATE_CACHE
    counter,        \* ai.rs:137  COUNTER
    search_pc,      \* where best_move is
    search_state,   \* ai.rs:57  best_move's argument
    tasks,          \* ai.rs:64-75  the root tasks, one per candidate
    actions,        \* ai.rs:64  the gathered (action, eval) pairs
    best_eval,      \* ai.rs:61
    best_moves,     \* ai.rs:62
    best_move,      \* ai.rs:86-90  the Option returned
    replaced        \* ai.rs:185-188  how many inserts replaced an entry

game_vars == <<game_state, turn, last_point, last_result, gen_moves>>
eval_vars == <<eval_pair, eval_kind, eval_scores>>
search_vars == <<search_pc, search_state, tasks, actions, best_eval, best_moves,
                 best_move, replaced>>
vars == <<game_vars, eval_vars, cache, counter, search_vars>>

NoPoint == <<BoardSize + 2, BoardSize + 2>>
\* Option values: None, and Some(v) holding v at index 1
None == <<>>
Some(v) == <<v>>

GameInit ==
    /\ game_state = new
    /\ turn = 0
    /\ last_point = NoPoint
    /\ last_result = "None"
    /\ gen_moves = None

EvalIdle ==
    /\ eval_pair = <<new, new>>
    /\ eval_kind = "none"
    /\ eval_scores = <<None, None>>

SearchIdle ==
    /\ search_pc = "idle"
    /\ search_state = new
    /\ tasks = <<>>
    /\ actions = <<>>
    /\ best_eval = I32_MIN
    /\ best_moves = <<>>
    /\ best_move = None
    /\ replaced = 0

\* ------------------------------------------------------------------------
\* The game: a GameState mutated by make_move calls (main.rs:11, 29, 56).

\* Bound on the number of successful placements of a run.
MaxMoves == 9

\* The coordinates the calls are drawn from: the main diagonal from the
\* corner, the centre, two cells far from both, and out-of-range coordinates.
InPoints ==
    { <<0, 0>>, <<1, 1>>, <<2, 2>>, <<3, 3>>, <<4, 4>>, <<6, 6>>,
      <<7, 7>>, <<10, 0>>, <<12, 0>> }

OutPoints == { <<BoardSize, 0>>, <<0, BoardSize + 1>> }

MovePoints == InPoints \cup OutPoints

\* main.rs:11-12
Init ==
    /\ GameInit
    /\ EvalIdle
    /\ cache = EmptyCache
    /\ counter = 0
    /\ SearchIdle

\* main.rs:29, 56 and 67: one make_move call; the turn counter advances
\* only when the call succeeds.
MakeMoveUpTo(point, max) ==
    /\ turn < max
    /\ LET r == make_move(game_state, point)
       IN  /\ game_state' = r.state
           /\ last_result' = r.result
           /\ turn' = IF r.result = "InvalidMove" THEN turn ELSE turn + 1
    /\ last_point' = point
    /\ gen_moves' = None
    /\ UNCHANGED <<eval_vars, cache, counter, search_vars>>

MakeMove(point) == MakeMoveUpTo(point, MaxMoves)

Next == \E point \in MovePoints : MakeMove(point)

Spec == Init /\ [][Next]_vars

\* ------------------------------------------------------------------------
\* The move generator applied to the states of short games.

\* Bound on the number of successful placements before generate_moves.
MaxGenMoves == 4

GenMakeMove(point) == MakeMoveUpTo(point, MaxGenMoves)

\* ai.rs:64, 22, 39  a call of generate_moves on the current state
GenerateMoves ==
    /\ gen_moves = None
    /\ gen_moves' = Some(generate_moves(game_state))
    /\ UNCHANGED <<game_state, turn, last_point, last_result>>
    /\ UNCHANGED <<eval_vars, cache, counter, search_vars>>

NextGen ==
    \/ \E point \in MovePoints : GenMakeMove(point)
    \/ GenerateMoves

SpecGen == Init /\ [][NextGen]_vars

\* ------------------------------------------------------------------------
\* The evaluator applied to pairs of states.

\* Bound on the number of placements that build an evaluated state.
MaxEvalMoves == 5

\* The cells those placements are drawn from: three in a row and three
\* apart from them and from each other.
EvalPoints == { <<5, 7>>, <<6, 7>>, <<7, 7>>, <<1, 1>>, <<12, 3>>, <<10, 12>> }

\* the states make_move reaches from new in at most n placements
RECURSIVE ReachedIn(_)
ReachedIn(n) ==
    IF n = 0 THEN {new}
    ELSE LET before == ReachedIn(n - 1)
         IN  before \cup {make_move(st, point).state :
                              st \in before, point \in EvalPoints}

\* every piece changed to the other side, and the turn with them
Inverted(state) ==
    [board |-> [x \in Coord |-> [y \in Coord |->
                    IF state.board[x][y] = "Empty" THEN "Empty"
                    ELSE other_turn(state.board[x][y])]],
     current_turn |-> other_turn(state.current_turn)]

\* Where runs start: on the first cells of lines and away from them.
RunStarts == {0, 1, 5, 9} \X {0, 1, 5, 9}

RunDirs == {Dirs[i] : i \in 1 .. Len(Dirs)}

RunCells(start, dir, len) ==
    {<<start[1] + j * dir[1], start[2] + j * dir[2]>> : j \in 0 .. len - 1}

\* a board holding nothing but a run of len pieces of side
RunState(side, start, dir, len, to_move) ==
    [board |-> [x \in Coord |-> [y \in Coord |->
                    IF <<x, y>> \in RunCells(start, dir, len) THEN side
                    ELSE "Empty"]],
     current_turn |-> to_move]

\* the runs of 6 that fit on the board
RunPlaces ==
    {pl \in RunStarts \X RunDirs : RunCells(pl[1], pl[2], 6) \subseteq Coord \X Coord}

RunPairs ==
    {<<RunState(side, pl[1], pl[2], 5, to_move),
       RunState(side, pl[1], pl[2], 6, to_move)>> :
        side \in {"Black", "White"}, to_move \in {"Black", "White"},
        pl \in RunPlaces}

InitEval ==
    /\ GameInit
    /\ \/ /\ eval_kind = "inverted"
          /\ \E st \in ReachedIn(MaxEvalMoves) : eval_pair = <<st, Inverted(st)>>
       \/ /\ eval_kind = "runs"
          /\ eval_pair \in RunPairs
    /\ eval_scores = <<None, None>>
    /\ cache = EmptyCache
    /\ counter = 0
    /\ SearchIdle

\* Bound on the number of evaluate calls on a pair.
MaxEvalCalls == 3

\* ai.rs:139-191  a call of evaluate on one of the two states
Evaluate(i) ==
    /\ counter < MaxEvalCalls
    /\ LET r == evaluate(cache, eval_pair[i])
       IN  /\ eval_scores' = [eval_scores EXCEPT ![i] = Some(r.score)]
           /\ cache' = r.cache
    /\ counter' = counter + 1
    /\ UNCHANGED <<eval_pair, eval_kind, game_vars, search_vars>>

NextEval == \E i \in {1, 2} : Evaluate(i)

SpecEval == InitEval /\ [][NextEval]_vars

\* ------------------------------------------------------------------------
\* best_move, its root tasks running in parallel.

\* Bound on the number of root tasks running at once (the thread pool's size).
NumThreads == 2

\* A board with no empty cell and no run longer than 4 but for the two
\* flipped cells; the search inputs are this board with a few cells empty.
\* In the last input White, to move, completes a run on row 7 at (6,7).
BaseBoard ==
    [x \in Coord |-> [y \in Coord |->
        IF ((x + 2 * y) % 4 \in {0, 1}) = (<<x, y>> \notin {<<7, 7>>, <<3, 8>>})
        THEN "Black" ELSE "White"]]

PieceCount(board, side) ==
    Cardinality({point \in Coord \X Coord : board[point[1]][point[2]] = side})

\* The state with these cells empty; the side to move is the one the
\* alternation of game.rs:53-56 leaves to move.
NearFull(empties) ==
    LET board == [x \in Coord |-> [y \in Coord |->
                     IF <<x, y>> \in empties THEN "Empty" ELSE BaseBoard[x][y]]]
    IN  [board |-> board,
         current_turn |-> IF PieceCount(board, "Black") = PieceCount(board, "White")
                          THEN "Black" ELSE "White"]

SearchInputSeq ==
    << new,
       NearFull({}),
       NearFull({<<9, 6>>}),
       NearFull({<<9, 6>>, <<2, 8>>}),
       NearFull({<<9, 6>>, <<2, 8>>, <<8, 6>>}),
       NearFull({<<9, 6>>, <<2, 8>>, <<8, 6>>, <<6, 4>>}),
       NearFull({<<7, 3>>, <<6, 3>>, <<3, 10>>, <<4, 5>>}),
       NearFull({<<6, 7>>, <<2, 8>>}) >>

SearchInputs == {SearchInputSeq[i] : i \in 1 .. Len(SearchInputSeq)}

InitSearch ==
    /\ GameInit
    /\ EvalIdle
    /\ cache = EmptyCache
    /\ counter = 0
    /\ search_pc = "idle"
    /\ search_state \in SearchInputs
    /\ tasks = <<>>
    /\ actions = <<>>
    /\ best_eval = I32_MIN
    /\ best_moves = <<>>
    /\ best_move = None
    /\ replaced = 0

\* a root task that has not started
idle_task(action) ==
    [action |-> action, status |-> "idle", stack |-> <<>>, state |-> new,
     value |-> 0]

\* a root task after a run of its code: entering an evaluate call
\* ("count"), finished with its eval ("done"), or panicked
task_after(action, r) ==
    [action |-> action,
     status |-> IF r.kind = "eval" THEN "count" ELSE r.kind,
     stack |-> r.stack, state |-> r.state, value |-> r.value]

\* the task is inside an evaluate call: before the fetch_add of ai.rs:140
\* ("count"), before the lookup under the lock of ai.rs:141-145 ("lookup"),
\* or past a miss ("compute")
Running(i) == tasks[i].status \in {"count", "lookup", "compute"}

\* ai.rs:57-64  best_move is called on a state: the counter and the cache
\* are reset, the candidates generated and one task made for each
BestMoveOn(state) ==
    /\ search_state' = state
    /\ counter' = 0
    /\ cache' = EmptyCache
    /\ LET moves == generate_moves(state)
       IN  tasks' = [i \in 1 .. Len(moves) |-> idle_task(moves[i])]
    /\ actions' = <<>>
    /\ best_eval' = I32_MIN
    /\ best_moves' = <<>>
    /\ best_move' = None
    /\ replaced' = 0
    /\ search_pc' = "tasks"
    /\ UNCHANGED <<game_vars, eval_vars>>

\* a call of best_move on the input, also after an earlier call returned
BestMoveStart ==
    /\ search_pc \in {"idle", "returned"}
    /\ BestMoveOn(search_state)

\* ai.rs:66-71  a free thread takes a task and runs it up to its first
\* evaluate call
TaskStart(i) ==
    /\ search_pc = "tasks"
    /\ tasks[i].status = "idle"
    /\ Cardinality({j \in DOMAIN tasks : Running(j)}) < NumThreads
    /\ tasks' = [tasks EXCEPT
                    ![i] = task_after(@.action, root_task(search_state, @.action))]
    /\ UNCHANGED <<search_pc, search_state, actions, best_eval, best_moves,
                   best_move, replaced, cache, counter, game_vars, eval_vars>>

\* ai.rs:140  evaluate counts the call; the lock is not yet taken, so
\* other threads' steps can fall between this and the lookup
TaskCount(i) ==
    /\ search_pc = "tasks"
    /\ tasks[i].status = "count"
    /\ counter' = counter + 1
    /\ tasks' = [tasks EXCEPT ![i] = [@ EXCEPT !.status = "lookup"]]
    /\ UNCHANGED <<search_pc, search_state, actions, best_eval, best_moves,
                   best_move, replaced, cache, game_vars, eval_vars>>

\* ai.rs:141-148  the lookup under the lock; on a hit the task runs on to
\* its next evaluate call
TaskLookup(i) ==
    /\ search_pc = "tasks"
    /\ tasks[i].status = "lookup"
    /\ LET found == cache_get(cache, tasks[i].state)
       IN  tasks' = [tasks EXCEPT ![i] =
                        IF found.hit
                        THEN task_after(@.action, minimax_return(@.stack, found.score))
                        ELSE [@ EXCEPT !.status = "compute"]]
    /\ UNCHANGED <<search_pc, search_state, actions, best_eval, best_moves,
                   best_move, replaced, cache, counter, game_vars, eval_vars>>

\* ai.rs:150-190  after a miss the score is computed without the lock and
\* inserted under it; the task runs on to its next evaluate call
TaskInsertStuckMut(i) ==
    /\ search_pc = "tasks"
    /\ tasks[i].status = "compute"
    /\ cache' = cache_insert(cache, tasks[i].state, compute_score(tasks[i].state))
    /\ tasks' = [tasks EXCEPT ![i] = [@ EXCEPT !.status = "waiting"]]
    /\ UNCHANGED <<search_pc, search_state, actions, best_eval, best_moves,
                   best_move, replaced, counter, game_vars, eval_vars>>

TaskInsert(i) ==
    /\ search_pc = "tasks"
    /\ tasks[i].status = "compute"
    /\ \E score \in {compute_score(tasks[i].state)} :
           /\ cache' = cache_insert(cache, tasks[i].state, score)
           /\ tasks' = [tasks EXCEPT ![i] =
                            task_after(@.action, minimax_return(@.stack, score))]
    /\ replaced' = IF tasks[i].state \in DOMAIN cache THEN replaced + 1 ELSE replaced
    /\ UNCHANGED <<search_pc, search_state, actions, best_eval, best_moves,
                   best_move, counter, game_vars, eval_vars>>

\* ai.rs:75  collect returns, once every task is over, the pairs in the
\* candidates' order
GatherEarlyMut ==
    /\ search_pc = "tasks"
    /\ \E i \in DOMAIN tasks : tasks[i].status = "done"
    /\ LET over == SelectSeq(tasks, LAMBDA task : task.status = "done")
       IN  actions' = [i \in DOMAIN over |-> <<over[i].action, over[i].value>>]
    /\ search_pc' = "gathered"
    /\ UNCHANGED <<search_state, tasks, best_eval, best_moves, best_move,
                   replaced, cache, counter, game_vars, eval_vars>>

Gather ==
    /\ search_pc = "tasks"
    /\ \A i \in DOMAIN tasks : tasks[i].status = "done"
    /\ actions' = [i \in DOMAIN tasks |-> <<tasks[i].action, tasks[i].value>>]
    /\ search_pc' = "gathered"
    /\ UNCHANGED <<search_state, tasks, best_eval, best_moves, best_move,
                   replaced, cache, counter, game_vars, eval_vars>>

\* ai.rs:77-95  the selection loop and the pick among the best moves
Select ==
    /\ search_pc = "gathered"
    /\ LET selected == select_best(actions, 1, I32_MIN, <<>>)
       IN  /\ best_eval' = selected.best_eval
           /\ best_moves' = selected.best_moves
           /\ IF Len(selected.best_moves) = 0
              THEN best_move' = None
              ELSE \E k \in 1 .. Len(selected.best_moves) :
                       best_move' = Some(selected.best_moves[k])
    /\ search_pc' = "returned"
    /\ UNCHANGED <<search_state, tasks, actions, replaced, cache, counter,
                   game_vars, eval_vars>>

NextSearch ==
    \/ BestMoveStart
    \/ \E i \in DOMAIN tasks : TaskStart(i)
    \/ \E i \in DOMAIN tasks : TaskCount(i)
    \/ \E i \in DOMAIN tasks : TaskLookup(i)
    \/ \E i \in DOMAIN tasks : TaskInsert(i)
    \/ Gather
    \/ Select

SpecSearch == InitSearch /\ [][NextSearch]_vars

\* a step of a root task
TaskStep ==
    \E i \in DOMAIN tasks :
        TaskStart(i) \/ TaskCount(i) \/ TaskLookup(i) \/ TaskInsert(i)

\* the enabling condition of TaskStep: a task waits for a free thread that
\* exists, or is at an evaluate call (each such step changes the task)
TaskCanStep ==
    /\ search_pc = "tasks"
    /\ \E i \in DOMAIN tasks :
           \/ /\ tasks[i].status = "idle"
              /\ Cardinality({j \in DOMAIN tasks : Running(j)}) < NumThreads
           \/ tasks[i].status \in {"count", "lookup", "compute"}

\* weak fairness of TaskStep, its enabling condition written out: the
\* thread pool runs a task that can run, and the cache lock is held only
\* for a lookup or an insert, so a task at the lock gets it
FairTasks == ([]<>(~TaskCanStep)) \/ ([]<><<TaskStep>>_vars)

\* The same under fair scheduling: the tasks run, collect returns once
\* they are over and the selection loop runs to its end.
SpecSearchFair ==
    /\ InitSearch
    /\ [][NextSearch]_vars
    /\ FairTasks
    /\ WF_vars(Gather)
    /\ WF_vars(Select)

\* ai.rs:64-75  the pairs the root tasks compute when run one after the
\* other with no cache
RECURSIVE root_scores(_, _)
root_scores(state, moves) ==
    IF moves = <<>> THEN <<>>
    ELSE << <<Head(moves),
              minimax(make_move(state, Head(moves)).state, MAX_DEPTH,
                      I32_MIN, I32_MAX, FALSE)>> >>
         \o root_scores(state, Tail(moves))

\* ai.rs:64-75  the same for all the candidates of a state
sequential(state) == root_scores(state, generate_moves(state))

RECURSIVE sequential_from(_)
sequential_from(i) ==
    IF i > Len(SearchInputSeq) THEN [st \in {} |-> <<>>]
    ELSE (SearchInputSeq[i] :> sequential(SearchInputSeq[i]))
         @@ sequential_from(i + 1)

\* for each search input, the sequential uncached pairs
Sequential == sequential_from(1)

\* ai.rs:13-55 without the cutoffs of lines 32-34 and 49-51: every
\* candidate of every node is searched
RECURSIVE minimax_plain(_, _, _)
RECURSIVE minimax_plain_loop(_, _, _, _, _)
minimax_plain_loop(state, depth, maximizing_player, moves, best) ==
    IF moves = <<>> THEN best
    ELSE LET moved == make_move(state, Head(moves))
             eval == IF moved.result = "NotEnd"
                     THEN minimax_plain(moved.state, depth - 1, ~maximizing_player)
                     ELSE IF maximizing_player THEN I32_MAX ELSE I32_MIN
         IN  minimax_plain_loop(state, depth, maximizing_player, Tail(moves),
                 IF maximizing_player THEN Max(best, eval) ELSE Min(best, eval))

minimax_plain(state, depth, maximizing_player) ==
    IF depth = 0 THEN compute_score(state)
    ELSE minimax_plain_loop(state, depth, maximizing_player, generate_moves(state),
                            IF maximizing_player THEN I32_MIN ELSE I32_MAX)

\* ai.rs:64-75  the candidates' scores by the search without cutoffs
RECURSIVE plain_scores(_, _)
plain_scores(state, moves) ==
    IF moves = <<>> THEN <<>>
    ELSE <<minimax_plain(make_move(state, Head(moves)).state, MAX_DEPTH, FALSE)>>
         \o plain_scores(state, Tail(moves))

RECURSIVE plain_from(_)
plain_from(i) ==
    IF i > Len(SearchInputSeq) THEN [st \in {} |-> <<>>]
    ELSE (SearchInputSeq[i] :>
              plain_scores(SearchInputSeq[i], generate_moves(SearchInputSeq[i])))
         @@ plain_from(i + 1)

\* for each search input, its candidates' scores without cutoffs
PlainScores == plain_from(1)

\* ------------------------------------------------------------------------
\* Properties of the rules engine and of the move generator

AllPoints == Coord \X Coord

InBounds(p) == p[1] \in Coord /\ p[2] \in Coord

Succeeded == last_result \in {"Win", "NotEnd"}

\* The cell p lies in five consecutive cells of one axis all holding pc.
InRunOfFive(state, p, pc) ==
    \E d \in {<<1, 0>>, <<0, 1>>, <<1, 1>>, <<1, -1>>} : \E k \in 0 .. 4 :
        \A j \in 0 .. 4 :
            LET q == <<p[1] + (j - k) * d[1], p[2] + (j - k) * d[2]>>
            IN  InBounds(q) /\ piece(state, q) = pc

\* The last call placed a piece that lies in a run of five of its side.
CompletedFive ==
    /\ Succeeded
    /\ InRunOfFive(game_state, last_point, piece(game_state, last_point))

\* C1: a successful make_move whose placed cell lies in a run of 5 or more
\* of the mover's pieces returns Win.
C1_FiveReturnsWin == CompletedFive => last_result = "Win"

\* C2: make_move on an out-of-range coordinate or on an occupied cell
\* returns InvalidMove and leaves the board and current_turn as they were.
C2_InvalidMoveKeepsState ==
    [][ (~InBounds(last_point') \/ piece(game_state, last_point') # "Empty")
            => (last_result' = "InvalidMove" /\ game_state' = game_state) ]_vars

C2_Witness ==
    /\ last_result = "InvalidMove"
    /\ last_point[1] >= BoardSize
    /\ turn >= 2

\* C3: Win is returned only when the placed cell lies in a run of at least
\* 5 of the mover's pieces; every other successful move returns NotEnd.
C3_WinOnlyOnFive ==
    /\ last_result = "Win" => CompletedFive
    /\ (Succeeded /\ ~CompletedFive) => last_result = "NotEnd"

\* the fourth piece of a diagonal run has just been placed
C3_Witness ==
    /\ last_result = "NotEnd"
    /\ last_point = <<3, 3>>
    /\ \A i \in 0 .. 3 : piece(game_state, <<i, i>>) = "Black"
    /\ piece(game_state, <<4, 4>>) = "Empty"

\* C4: a successful make_move(p) turns cell p from Empty into the side to
\* move, changes no other cell and flips current_turn; no call ever changes
\* a non-Empty cell.
C4_OnePlacement ==
    [][ /\ last_result' \in {"Win", "NotEnd"} =>
            /\ piece(game_state, last_point') = "Empty"
            /\ piece(game_state', last_point') = game_state.current_turn
            /\ \A q \in AllPoints \ {last_point'} :
                   piece(game_state', q) = piece(game_state, q)
            /\ game_state.current_turn \in {"Black", "White"}
            /\ game_state'.current_turn = other_turn(game_state.current_turn)
            /\ game_state'.current_turn # game_state.current_turn
        /\ \A q \in AllPoints :
               piece(game_state, q) # "Empty" =>
                   piece(game_state', q) = piece(game_state, q) ]_vars

C4_Witness ==
    /\ last_result = "NotEnd"
    /\ turn = 3
    /\ game_state.current_turn = "White"
    /\ piece(game_state, last_point) = "Black"

\* The Empty cells with a non-Empty cell at Chebyshev distance 1.
NearOccupied(state) ==
    {p \in AllPoints :
        /\ piece(state, p) = "Empty"
        /\ \E q \in (((p[1] - 1) .. (p[1] + 1)) \cap Coord)
                        \X (((p[2] - 1) .. (p[2] + 1)) \cap Coord) :
               piece(state, q) # "Empty"}

Range(seq) == {seq[i] : i \in 1 .. Len(seq)}

\* C5: generate_moves returns exactly the Empty cells next to a non-Empty
\* cell, each once; after a first placement at (7,7), its 8 neighbours.
C5_CandidatesAreNeighbours ==
    gen_moves # None =>
    LET moves == gen_moves[1]
    IN  /\ Range(moves) = NearOccupied(game_state)
        /\ Len(moves) = Cardinality(Range(moves))
        /\ (turn = 1 /\ piece(game_state, <<7, 7>>) # "Empty") =>
               Range(moves) = ({6, 7, 8} \X {6, 7, 8}) \ {<<7, 7>>}

C5_Witness ==
    /\ turn = 1
    /\ piece(game_state, <<7, 7>>) = "Black"
    /\ gen_moves # None
    /\ Len(gen_moves[1]) = 8

\* ------------------------------------------------------------------------
\* Properties of best_move

Candidates == generate_moves(search_state)

\* the greatest score of the gathered pairs
TopScore ==
    CHOOSE top \in {actions[i][2] : i \in DOMAIN actions} :
        \A i \in DOMAIN actions : actions[i][2] <= top

\* the candidates whose score is the greatest
Tied == {actions[i][1] : i \in {j \in DOMAIN actions : actions[j][2] = TopScore}}

\* C6: best_move returns None exactly when generate_moves returns nothing;
\* otherwise, even with every candidate at i32::MIN, it returns one of the
\* candidates, an in-bounds Empty cell on which make_move succeeds.
C6_NoneIffNoCandidates ==
    search_pc = "returned" =>
        /\ (best_move = None) <=> (Candidates = <<>>)
        /\ best_move # None =>
               /\ best_move[1] \in Range(Candidates)
               /\ InBounds(best_move[1])
               /\ piece(search_state, best_move[1]) = "Empty"
               /\ make_move(search_state, best_move[1]).result # "InvalidMove"

\* every candidate scored i32::MIN and one was returned
C6_Witness ==
    /\ search_pc = "returned"
    /\ Len(actions) = 2
    /\ \A i \in DOMAIN actions : actions[i][2] = I32_MIN
    /\ best_eval = I32_MIN
    /\ best_move = Some(actions[2][1])

\* C7: with candidates, the returned score is the greatest of the
\* candidates' scores and the returned position is a candidate with that
\* score; each of the candidates tied at that score can be returned.
C7_BestIsMaximum ==
    /\ (search_pc = "returned" /\ actions # <<>>) =>
           /\ best_eval = TopScore
           /\ Range(best_moves) = Tied
           /\ best_move # None
           /\ best_move[1] \in Tied
    /\ (search_pc = "gathered" /\ actions # <<>>) =>
           \A action \in Tied : ENABLED (Select /\ best_move' = Some(action))

\* three candidates tied above a fourth, and the last of the three returned
C7_Witness ==
    /\ search_pc = "returned"
    /\ Len(actions) = 4
    /\ Cardinality(Tied) = 3
    /\ TopScore = 0
    /\ best_move = Some(actions[3][1])
    /\ actions[4][2] < 0

\* C9: whatever the interleaving of the root tasks and whatever the cache
\* hits and misses, each finished task holds, and the gathered list and the
\* selection are made of, the scores the tasks compute one after the other
\* with no cache; only the pick among the best moves is free.
C9_SameAsSequential ==
    LET pairs == Sequential[search_state]
        selected == select_best(pairs, 1, I32_MIN, <<>>)
    IN  /\ search_pc = "tasks" =>
               \A i \in DOMAIN tasks :
                   tasks[i].status = "done" =>
                       <<tasks[i].action, tasks[i].value>> = pairs[i]
        /\ search_pc \in {"gathered", "returned"} => actions = pairs
        /\ search_pc = "returned" =>
               /\ best_eval = selected.best_eval
               /\ best_moves = selected.best_moves
               /\ IF selected.best_moves = <<>> THEN best_move = None
                  ELSE \E action \in Range(selected.best_moves) :
                           best_move = Some(action)

\* a run in which tasks hit the cache and two tasks computed the score of
\* the same state, the later insert replacing the earlier
C9_Witness ==
    /\ search_pc = "returned"
    /\ Len(actions) = 4
    /\ replaced > 0
    /\ counter > Cardinality(DOMAIN cache) + replaced
    /\ TopScore = 1000000

\* ------------------------------------------------------------------------
\* Properties of the evaluator

BothEvaluated == eval_scores[1] # None /\ eval_scores[2] # None

\* C8: a state and the state with every piece and the turn changed to the
\* other side get the same score from evaluate.
C8_InversionSymmetric ==
    (eval_kind = "inverted" /\ BothEvaluated) => eval_scores[1] = eval_scores[2]

\* three Black pieces in a row with White to move, and the inverse
C8_Witness ==
    /\ eval_kind = "inverted"
    /\ BothEvaluated
    /\ \A x \in 5 .. 7 : piece(eval_pair[1], <<x, 7>>) = "Black"
    /\ eval_pair[1].current_turn = "White"
    /\ eval_pair[2].current_turn = "Black"
    /\ eval_scores[1][1] < 0

\* the side whose run the first state of a pair of run states holds
RunOwner ==
    CHOOSE side \in {"Black", "White"} :
        \E point \in AllPoints : piece(eval_pair[1], point) = side

\* C10: an isolated run of 6 gets the same score as the run of 5 at the
\* same start, 1,000,000 for its owner.
C10_LongScoresAsFive ==
    (eval_kind = "runs" /\ BothEvaluated) =>
        /\ eval_scores[1] = eval_scores[2]
        /\ eval_scores[1][1] = IF eval_pair[1].current_turn = RunOwner
                               THEN 1000000 ELSE -1000000

\* ------------------------------------------------------------------------
\* Properties of the parallel run of best_move

\* C11: the selection is made only from the complete list: once gathered,
\* the list holds one pair for each candidate of generate_moves, in their
\* order, each the pair of a finished task, and while tasks still run
\* nothing is gathered or selected.
C11_SelectAfterAllTasks ==
    /\ search_pc \in {"gathered", "returned"} =>
           /\ Len(actions) = Len(Candidates)
           /\ \A i \in DOMAIN actions :
                  /\ actions[i][1] = Candidates[i]
                  /\ tasks[i].status = "done"
                  /\ actions[i] = <<tasks[i].action, tasks[i].value>>
    /\ search_pc \in {"idle", "tasks"} =>
           /\ actions = <<>>
           /\ best_moves = <<>>
           /\ best_move = None

\* the four pairs of a four-candidate input gathered, none selected yet
C11_Witness ==
    /\ search_pc = "gathered"
    /\ Len(Candidates) = 4
    /\ Len(actions) = 4
    /\ best_move = None
    /\ counter > 0

\* the depths of a task's activations go down by one from MAX_DEPTH
DepthsDecrease ==
    \A i \in DOMAIN tasks :
        /\ Len(tasks[i].stack) <= MAX_DEPTH
        /\ \A k \in DOMAIN tasks[i].stack :
               tasks[i].stack[k].depth = MAX_DEPTH - k + 1

\* C12: under fair scheduling a started best_move returns; the depths of
\* each task's nested minimax calls go down from 3 and no task waits
\* forever at the cache.
C12_BestMoveReturns ==
    /\ []DepthsDecrease
    /\ (search_pc = "tasks") ~> (search_pc = "returned")

\* a run over, after evaluate calls that took the cache lock
C12_Witness ==
    /\ search_pc = "returned"
    /\ counter > 0
    /\ Cardinality(DOMAIN cache) > 1
    /\ \A i \in DOMAIN tasks : tasks[i].status = "done" /\ tasks[i].stack = <<>>

\* the root placement of task i completes a run of five of the mover
RootPlacementWins(i) ==
    InRunOfFive(make_move(search_state, tasks[i].action).state, tasks[i].action,
                search_state.current_turn)

\* C13: a root placement that wins resolves its branch at once: the task
\* is over with i32::MAX for the searching side, without recursion or
\* evaluate call below the won position.
C13_WinResolvesBranch ==
    \A i \in DOMAIN tasks :
        (tasks[i].status # "idle" /\ RootPlacementWins(i)) =>
            /\ tasks[i].status = "done"
            /\ tasks[i].value = I32_MAX

\* ------------------------------------------------------------------------
\* Properties of the line scan

\* the cells of line i, from the cell its scan starts at to the border
LineCells(i) == <<LineHeads[i][1]>> \o Lines[i]

\* C14: the token sequence of every scanned line holds, between the two
\* sentinels, one token for each cell of the line in board order, the cell
\* the scan starts at included; a row or a column gives 17 tokens.
C14_EveryCellHasToken ==
    LET state == eval_pair[1]
        my_piece == state.current_turn
    IN  \A i \in DOMAIN Lines :
            LET tokens == line_tokens(state, my_piece, Lines[i])
                cells == LineCells(i)
            IN  /\ Len(tokens) = Len(cells) + 2
                /\ tokens[1] = 2 /\ tokens[Len(tokens)] = 2
                /\ \A j \in DOMAIN cells :
                       j + 1 <= Len(tokens) =>
                           tokens[j + 1] = token(state, my_piece, cells[j])
                /\ LineHeads[i][2] \in {<<1, 0>>, <<0, 1>>} => Len(tokens) = BoardSize + 2

\* ------------------------------------------------------------------------
\* Properties of the search

\* C15: the value minimax returns for a root candidate, called with the
\* full window and cutting off at beta <= alpha, is the value of the search
\* of every candidate of every node.
C15_PruningKeepsValue ==
    /\ \A i \in DOMAIN tasks :
           tasks[i].status = "done" =>
               tasks[i].value = PlainScores[search_state][i]
    /\ \A i \in DOMAIN Sequential[search_state] :
           Sequential[search_state][i][2] = PlainScores[search_state][i]

\* a run over in which cutoffs were made: fewer evaluate calls than the
\* 4 * 3 * 2 * 1 leaves below the four candidates
C15_Witness ==
    /\ search_pc = "returned"
    /\ Len(actions) = 4
    /\ counter > 0
    /\ counter < 4 * 3 * 2 * 1
    /\ \E i, j \in DOMAIN actions : actions[i][2] # actions[j][2]

\* the states evaluate is being called on or has been called on
EvaluatedStates ==
    {tasks[i].state : i \in {j \in DOMAIN tasks : Running(j)}} \cup DOMAIN cache

\* the cells on which two states differ
ChangedCells(before, after) ==
    {point \in AllPoints : piece(after, point) # piece(before, point)}

\* C16: evaluate is called only on states four successful placements away
\* from the state best_move was given, with the same side to move.
C16_LeavesFourPliesDeep ==
    /\ \A state \in EvaluatedStates :
           /\ Cardinality(ChangedCells(search_state, state)) = MAX_DEPTH + 1
           /\ \A point \in ChangedCells(search_state, state) :
                  /\ piece(search_state, point) = "Empty"
                  /\ piece(state, point) # "Empty"
           /\ state.current_turn = search_state.current_turn
    /\ \A i \in DOMAIN tasks : Running(i) => Len(tasks[i].stack) = MAX_DEPTH

\* a task computing a leaf's score while other leaves are in the cache
C16_Witness ==
    /\ search_pc = "tasks"
    /\ \E i \in DOMAIN tasks : tasks[i].status = "compute"
    /\ Cardinality(DOMAIN cache) >= 2
    /\ search_state.current_turn = "White"

\* ------------------------------------------------------------------------
\* Properties of the shared cache

\* the states n placements of generated candidates away from these
RECURSIVE after_moves(_, _)
after_moves(states, n) ==
    IF n = 0 THEN states
    ELSE after_moves(
             UNION {{make_move(state, action).state :
                        action \in Range(generate_moves(state))} : state \in states},
             n - 1)

\* the leaves of the searches of the search inputs
LeafStates ==
    UNION {after_moves({SearchInputSeq[i]}, MAX_DEPTH + 1) :
               i \in 1 .. Len(SearchInputSeq)}

RECURSIVE score_table(_)
score_table(states) ==
    IF states = {} THEN EmptyCache
    ELSE LET state == CHOOSE st \in states : TRUE
         IN  (state :> compute_score(state)) @@ score_table(states \ {state})

\* leaf -> the score the evaluation computes for it with no cache
LeafScore == score_table(LeafStates)

CacheEntriesTrue ==
    /\ DOMAIN cache \subseteq DOMAIN LeafScore
    /\ \A state \in DOMAIN cache : cache[state] = LeafScore[state]
    /\ \A i \in DOMAIN tasks : Running(i) => tasks[i].state \in DOMAIN LeafScore

\* a task leaving its evaluate call, on a hit or after the insert, goes on
\* as with the true score of the state
EvaluateReturnsTrue ==
    \A i \in DOMAIN tasks :
        (/\ search_pc = "tasks"
         /\ tasks[i].status \in {"lookup", "compute"}
         /\ i \in DOMAIN tasks'
         /\ tasks'[i] # tasks[i]
         /\ tasks'[i].status # "compute") =>
            tasks'[i] = task_after(tasks[i].action,
                            minimax_return(tasks[i].stack, LeafScore[tasks[i].state]))

\* C17: in every interleaving every cache entry is the score the uncached
\* evaluation computes for its state, and every evaluate call returns that
\* score, also when two tasks compute the same state.
C17_CacheHoldsTrueScores ==
    /\ []CacheEntriesTrue
    /\ [][EvaluateReturnsTrue]_vars

\* an entry with a non-zero score after an insert replaced an entry
C17_Witness ==
    /\ search_pc = "tasks"
    /\ replaced > 0
    /\ \E state \in DOMAIN cache : cache[state] # 0
    /\ \E i \in DOMAIN tasks : tasks[i].status = "lookup"

\* ------------------------------------------------------------------------
\* Properties of the candidate order

\* p comes before q in the scan of ai.rs:101-102 (x outer, y inner)
ScanBefore(p, q) == p[1] < q[1] \/ (p[1] = q[1] /\ p[2] < q[2])

\* C18: generate_moves returns its candidates in non-decreasing order of
\* evaluate_location, so a candidate with a larger un-negated sum never comes
\* after one with a smaller sum, and candidates with equal score keep the
\* (x, then y) scan order.
C18_CandidatesBestFirst ==
    gen_moves # None =>
        LET moves == gen_moves[1]
        IN  /\ \A i \in 1 .. Len(moves) :
                   evaluate_location(game_state, moves[i])
                       = -location_sum(game_state, moves[i], 1, 1)
            /\ \A i \in 1 .. Len(moves) : \A j \in (i + 1) .. Len(moves) :
                   \A si \in {evaluate_location(game_state, moves[i])} :
                       \A sj \in {evaluate_location(game_state, moves[j])} :
                           /\ si <= sj
                           /\ -si >= -sj
                           /\ si = sj => ScanBefore(moves[i], moves[j])

\* a list with a scored candidate moved ahead of earlier-scanned ones, and
\* with ties
C18_Witness ==
    /\ gen_moves # None
    /\ Len(gen_moves[1]) >= 3
    /\ evaluate_location(game_state, gen_moves[1][1]) < 0
    /\ ScanBefore(gen_moves[1][2], gen_moves[1][1])
    /\ evaluate_location(game_state, gen_moves[1][2])
           = evaluate_location(game_state, gen_moves[1][3])

\* ------------------------------------------------------------------------
\* Properties of the side to move

\* C19: in every state reachable from new by make_move calls current_turn is
\* Black or White, the number of Black pieces minus the number of White
\* pieces is 0 or 1, and current_turn is Black exactly when the counts are
\* equal.
C19_TurnFollowsCounts ==
    LET blacks == PieceCount(game_state.board, "Black")
        whites == PieceCount(game_state.board, "White")
    IN  /\ game_state.current_turn \in {"Black", "White"}
        /\ blacks - whites \in {0, 1}
        /\ (game_state.current_turn = "Black") <=> (blacks = whites)

\* both sides have placed, a call has failed in between, Black is to move
C19_Witness ==
    /\ turn = 4
    /\ last_result = "InvalidMove"
    /\ game_state.current_turn = "Black"
    /\ PieceCount(game_state.board, "White") = 2

\* ------------------------------------------------------------------------
\* The game loop of main.rs:14-68, late in a game.  The first states of the
\* loop are those of Spec; the AI's turn is a best_move call on the game's
\* state, run by the steps of the parallel search, then the placement.

\* the loop's states entered here: the near-full boards with a cell empty,
\* with the turn counter at the number of placements made
MainInputSeq == SubSeq(SearchInputSeq, 3, Len(SearchInputSeq))

MainInputs == {MainInputSeq[i] : i \in 1 .. Len(MainInputSeq)}

Placements(state) ==
    PieceCount(state.board, "Black") + PieceCount(state.board, "White")

\* main.rs:20-27  the points the human enters: the cells empty in an input,
\* an occupied cell, and points off the board
MainPoints ==
    {point \in AllPoints : \E state \in MainInputs : piece(state, point) = "Empty"}
        \cup {<<0, 0>>} \cup OutPoints

Panicked == last_result \in {"PanicNoMove", "PanicMoveFail"}

InitMain ==
    /\ game_state \in MainInputs
    /\ turn = Placements(game_state)
    /\ last_point = NoPoint
    /\ last_result = "None"
    /\ gen_moves = None
    /\ EvalIdle
    /\ cache = EmptyCache
    /\ counter = 0
    /\ SearchIdle

\* main.rs:19-41, 67  the human's turn: a failed move leaves the counter
HumanMove(point) ==
    /\ ~Panicked
    /\ turn % 2 = 0
    /\ search_pc = "idle"
    /\ LET r == make_move(game_state, point)
       IN  /\ game_state' = r.state
           /\ last_result' = r.result
           /\ turn' = IF r.result = "InvalidMove" THEN turn ELSE turn + 1
    /\ last_point' = point
    /\ UNCHANGED <<gen_moves, eval_vars, cache, counter, search_vars>>

\* main.rs:42-44  the AI's turn begins: best_move(&game_state) is called;
\* its tasks, collect and selection are the steps of the search
AiBestMove ==
    /\ ~Panicked
    /\ turn % 2 = 1
    /\ search_pc = "idle"
    /\ BestMoveOn(game_state)

\* main.rs:45-64, 67  best_move has returned: the two expect calls and the
\* placement; COUNTER and the cache stay as the search left them
AiMove ==
    /\ ~Panicked
    /\ turn % 2 = 1
    /\ search_pc = "returned"
    /\ IF best_move = None
       THEN /\ last_result' = "PanicNoMove"
            /\ UNCHANGED <<game_state, turn, last_point>>
       ELSE \E r \in {make_move(game_state, best_move[1])} :
                /\ last_point' = best_move[1]
                /\ IF r.result = "InvalidMove"
                   THEN /\ last_result' = "PanicMoveFail"
                        /\ UNCHANGED <<game_state, turn>>
                   ELSE /\ last_result' = r.result
                        /\ game_state' = r.state
                        /\ turn' = turn + 1
    /\ search_pc' = "idle"
    /\ UNCHANGED <<gen_moves, eval_vars, cache, counter>>
    /\ UNCHANGED <<search_state, tasks, actions, best_eval, best_moves,
                   best_move, replaced>>

NextMain ==
    \/ \E point \in MainPoints : HumanMove(point)
    \/ AiBestMove
    \/ \E i \in DOMAIN tasks : TaskStart(i)
    \/ \E i \in DOMAIN tasks : TaskCount(i)
    \/ \E i \in DOMAIN tasks : TaskLookup(i)
    \/ \E i \in DOMAIN tasks : TaskInsert(i)
    \/ Gather
    \/ Select
    \/ AiMove

SpecMain == InitMain /\ [][NextMain]_vars

\* C20: in every state of the game loop, when an AI turn is reached
\* best_move returns Some(point) and make_move(point) returns Ok, so neither
\* expectation of the AI's turn fails.
C20_AiTurnNeverPanics ==
    /\ ~Panicked
    /\ (turn % 2 = 1) => generate_moves(game_state) # <<>>

====
